---- MODULE Spec2Model ----
(***************************************************************************)
(* Model of the dynamic query-condition builder of                         *)
(* server/src/erp/order_module/model/order.rs: GetOrdersQuery and its two  *)
(* compilers get_where_condition and get_order_condition.  Text is         *)
(* modelled by TLA+ strings, so that the fragments are the very strings    *)
(* the code formats.                                                       *)
(***************************************************************************)
EXTENDS Integers, Sequences, FiniteSets, TLC

VARIABLES q, where_out, order_out

vars == <<q, where_out, order_out>>

(***************************************************************************)
(* Bounds of the explored inputs.                                          *)
(***************************************************************************)
MaxVal == 2
MaxPresent == 2
MaxSetLen == 2
MaxReverse == 1
MaxSorters == 2

(***************************************************************************)
(* Option<T>: None is the empty tuple, Some(v) the one-element tuple.      *)
(***************************************************************************)
None == <<>>
Some(v) == <<v>>
is_some(o) == o # None
is_none(o) == o = None
unwrap(o) == o[1]

(***************************************************************************)
(* Text helpers.                                                           *)
(***************************************************************************)
StartsWith(s, p) == Len(s) >= Len(p) /\ SubSeq(s, 1, Len(p)) = p

\* position of the first occurrence of p in s that starts in lo..hi, 0 when
\* there is none; the range is halved so that the search stays shallow
RECURSIVE FindIn(_, _, _, _)
FindIn(s, p, lo, hi) ==
    IF lo > hi THEN 0
    ELSE IF lo = hi THEN (IF SubSeq(s, lo, lo + Len(p) - 1) = p THEN lo ELSE 0)
    ELSE LET mid == (lo + hi) \div 2
             first == FindIn(s, p, lo, mid)
         IN  IF first > 0 THEN first ELSE FindIn(s, p, mid + 1, hi)

Find(s, p) == FindIn(s, p, 1, Len(s) - Len(p) + 1)

\* position of the last occurrence of p in s that starts in lo..hi, 0 when
\* there is none
RECURSIVE RFindIn(_, _, _, _)
RFindIn(s, p, lo, hi) ==
    IF lo > hi THEN 0
    ELSE IF lo = hi THEN (IF SubSeq(s, lo, lo + Len(p) - 1) = p THEN lo ELSE 0)
    ELSE LET mid == (lo + hi) \div 2
             last == RFindIn(s, p, mid + 1, hi)
         IN  IF last > 0 THEN last ELSE RFindIn(s, p, lo, mid)

RFind(s, p) == RFindIn(s, p, 1, Len(s) - Len(p) + 1)

Contains(s, p) == Find(s, p) > 0

\* the pieces of s between the occurrences of sep, from position start on
\* (the position found is bound once by the set constructor)
RECURSIVE SplitFrom(_, _, _)
SplitFrom(s, sep, start) ==
    CHOOSE pieces \in
        {IF i = 0 THEN <<SubSeq(s, start, Len(s))>>
         ELSE <<SubSeq(s, start, i - 1)>> \o SplitFrom(s, sep, i + Len(sep)) :
            i \in {FindIn(s, sep, start, Len(s) - Len(sep) + 1)}} : TRUE

\* str::split
Split(s, sep) == CHOOSE pieces \in {SplitFrom(text, sep, 1) : text \in {s}} : TRUE

\* slice::join
RECURSIVE join(_, _)
join(parts, sep) ==
    IF Len(parts) = 0 THEN ""
    ELSE IF Len(parts) = 1 THEN parts[1]
    ELSE parts[1] \o sep \o join(Tail(parts), sep)

\* Display of an i64
fmt_i64(v) == ToString(v)

(***************************************************************************)
(* Enumerations: a value is its discriminant, as_ref / Display give the    *)
(* variant name.                                                           *)
(***************************************************************************)
OrderTypeNames ==
    <<"StockIn", "StockOut", "Return", "Exchange", "Calibration",
      "CalibrationStrict", "Verification", "VerificationStrict">>

OrderPaymentStatusNames == <<"Settled", "Unsettled", "PartialSettled", "None">>

OrderCurrencyNames ==
    <<"CNY", "HKD", "USD", "GBP", "MYR", "IDR", "INR", "PHP", "Unknown">>

OrderType == 0..(Len(OrderTypeNames) - 1)
OrderPaymentStatus == 0..(Len(OrderPaymentStatusNames) - 1)
OrderCurrency == 0..(Len(OrderCurrencyNames) - 1)

order_type_as_ref(v) == OrderTypeNames[v + 1]
payment_status_to_string(v) == OrderPaymentStatusNames[v + 1]
currency_as_ref(v) == OrderCurrencyNames[v + 1]

(***************************************************************************)
(* Helpers of erp::util and myhelper.                                      *)
(***************************************************************************)
in_reverse(reverse, name) == is_some(reverse) /\ name \in unwrap(reverse)

eq_or_not(reverse, name) == IF in_reverse(reverse, name) THEN "!=" ELSE "="

in_or_not(reverse, name) == IF in_reverse(reverse, name) THEN " NOT IN " ELSE " IN "

like_or_not(reverse, name) == IF in_reverse(reverse, name) THEN "NOT LIKE" ELSE "LIKE"

\* A HashSet is held as the sequence in which it iterates; set_to_string
\* joins the Display of its elements in that order.
set_to_string_i64(items, sep) ==
    join([i \in 1..Len(items) |-> fmt_i64(items[i])], sep)

set_to_string_payment_status(items, sep) ==
    join([i \in 1..Len(items) |-> payment_status_to_string(items[i])], sep)

DefaultDirection == "asc"

\* the column of a sort token "<field>[:direction]"
get_sort_col_str(sorter) ==
    LET i == Find(sorter, ":")
    IN  IF i = 0 THEN sorter ELSE SubSeq(sorter, 1, i - 1)

\* the direction of a sort token, ascending when missing or malformed
get_sorter_str(sorter) ==
    LET i == Find(sorter, ":")
        suffix == IF i = 0 THEN "" ELSE SubSeq(sorter, i + 1, Len(sorter))
    IN  IF suffix = "desc" THEN "desc"
        ELSE IF suffix = "asc" THEN "asc"
        ELSE DefaultDirection

(***************************************************************************)
(* GetOrdersQuery                                                          *)
(***************************************************************************)
empty ==
    [id |-> None, created_by_user_id |-> None, updated_by_user_id |-> None,
     fuzzy |-> None, warehouse_ids |-> None, person_in_charge_id |-> None,
     person_related_id |-> None, order_payment_status |-> None,
     order_category_id |-> None, order_type |-> None, currency |-> None,
     date_start |-> None, date_end |-> None, sorters |-> None,
     reverse |-> None, last_updated_date_start |-> None,
     last_updated_date_end |-> None]

\* the clause pushed for each present field; v is the field's value
clause_id(reverse, v) ==
    "orders.id" \o eq_or_not(reverse, "id") \o fmt_i64(v)

clause_created_by_user_id(reverse, v) ==
    "orders.created_by_user_id" \o eq_or_not(reverse, "created_by_user_id") \o fmt_i64(v)

\* variant: the polarity looked up under the neighbouring field's identifier
clause_updated_by_user_id_wrong_key(reverse, v) ==
    "orders.updated_by_user_id" \o eq_or_not(reverse, "created_by_user_id") \o fmt_i64(v)

clause_updated_by_user_id(reverse, v) ==
    "orders.updated_by_user_id" \o eq_or_not(reverse, "updated_by_user_id") \o fmt_i64(v)

\* variant: the first comparison written with a literal LIKE
clause_fuzzy_first_fixed(reverse, v) ==
    LET eq == like_or_not(reverse, "fuzzy")
    IN  "CAST(orders.id AS TEXT) LIKE '%" \o v \o "%'"
        \o " OR persons_related.name " \o eq \o " '%" \o v \o "%'"
        \o " OR persons_in_charge.name " \o eq \o " '%" \o v \o "%'"
        \o " OR order_status_list.name " \o eq \o " '%" \o v \o "%'"
        \o " OR warehouses.name " \o eq \o " '%" \o v \o "%'"

clause_fuzzy(reverse, v) ==
    LET eq == like_or_not(reverse, "fuzzy")
    IN  "CAST(orders.id AS TEXT) " \o eq \o " '%" \o v \o "%'"
        \o " OR persons_related.name " \o eq \o " '%" \o v \o "%'"
        \o " OR persons_in_charge.name " \o eq \o " '%" \o v \o "%'"
        \o " OR order_status_list.name " \o eq \o " '%" \o v \o "%'"
        \o " OR warehouses.name " \o eq \o " '%" \o v \o "%'"

clause_warehouse_ids(reverse, v) ==
    "orders.warehouse_id" \o in_or_not(reverse, "warehouse_ids")
        \o "(" \o set_to_string_i64(v, ",") \o ")"

clause_person_related_id(reverse, v) ==
    "orders.person_related_id" \o eq_or_not(reverse, "person_related_id") \o fmt_i64(v)

clause_person_in_charge_id(reverse, v) ==
    "orders.person_in_charge_id" \o eq_or_not(reverse, "person_in_charge_id") \o fmt_i64(v)

clause_order_type(reverse, v) ==
    "orders.order_type" \o eq_or_not(reverse, "order_type")
        \o "'" \o order_type_as_ref(v) \o "'"

clause_order_payment_status(reverse, v) ==
    "orders.order_payment_status" \o in_or_not(reverse, "order_payment_status")
        \o "('" \o set_to_string_payment_status(v, "','") \o "')"

clause_order_category_id(reverse, v) ==
    "orders.order_category_id" \o eq_or_not(reverse, "order_category_id") \o fmt_i64(v)

clause_currency(reverse, v) ==
    "orders.currency" \o eq_or_not(reverse, "currency")
        \o "'" \o currency_as_ref(v) \o "'"

clause_date_start(v) == "orders.date>=" \o fmt_i64(v)

clause_date_end(v) == "orders.date<=" \o fmt_i64(v)

\* variant: the range compared on the entity's last_updated_date column
clause_last_updated_date_start_base_column(v) ==
    "orders.last_updated_date>=" \o fmt_i64(v)

clause_last_updated_date_start(v) == "orders.last_updated_date_start>=" \o fmt_i64(v)

clause_last_updated_date_end(v) == "orders.last_updated_date_end<=" \o fmt_i64(v)

\* variant: the tests made in the declaration order of the struct, where
\* order_payment_status precedes order_type
where_conditions_struct_order(self) ==
    LET reverse == self.reverse
        \* `if let Some(v) = &field { conditions.push(clause) }`
        push_if_some(o, clause(_)) == IF is_some(o) THEN <<clause(unwrap(o))>> ELSE <<>>
    IN  push_if_some(self.id, LAMBDA v : clause_id(reverse, v))
        \o push_if_some(self.created_by_user_id, LAMBDA v : clause_created_by_user_id(reverse, v))
        \o push_if_some(self.updated_by_user_id, LAMBDA v : clause_updated_by_user_id(reverse, v))
        \o push_if_some(self.fuzzy, LAMBDA v : clause_fuzzy(reverse, v))
        \o push_if_some(self.warehouse_ids, LAMBDA v : clause_warehouse_ids(reverse, v))
        \o push_if_some(self.person_related_id, LAMBDA v : clause_person_related_id(reverse, v))
        \o push_if_some(self.person_in_charge_id, LAMBDA v : clause_person_in_charge_id(reverse, v))
        \o push_if_some(self.order_payment_status, LAMBDA v : clause_order_payment_status(reverse, v))
        \o push_if_some(self.order_type, LAMBDA v : clause_order_type(reverse, v))
        \o push_if_some(self.order_category_id, LAMBDA v : clause_order_category_id(reverse, v))
        \o push_if_some(self.currency, LAMBDA v : clause_currency(reverse, v))
        \o push_if_some(self.date_start, clause_date_start)
        \o push_if_some(self.date_end, clause_date_end)
        \o push_if_some(self.last_updated_date_start, clause_last_updated_date_start)
        \o push_if_some(self.last_updated_date_end, clause_last_updated_date_end)

\* the Vec `conditions` of get_where_condition after its fifteen tests
where_conditions(self) ==
    LET reverse == self.reverse
        \* `if let Some(v) = &field { conditions.push(clause) }`
        push_if_some(o, clause(_)) == IF is_some(o) THEN <<clause(unwrap(o))>> ELSE <<>>
    IN  push_if_some(self.id, LAMBDA v : clause_id(reverse, v))
        \o push_if_some(self.created_by_user_id, LAMBDA v : clause_created_by_user_id(reverse, v))
        \o push_if_some(self.updated_by_user_id, LAMBDA v : clause_updated_by_user_id(reverse, v))
        \o push_if_some(self.fuzzy, LAMBDA v : clause_fuzzy(reverse, v))
        \o push_if_some(self.warehouse_ids, LAMBDA v : clause_warehouse_ids(reverse, v))
        \o push_if_some(self.person_related_id, LAMBDA v : clause_person_related_id(reverse, v))
        \o push_if_some(self.person_in_charge_id, LAMBDA v : clause_person_in_charge_id(reverse, v))
        \o push_if_some(self.order_type, LAMBDA v : clause_order_type(reverse, v))
        \o push_if_some(self.order_payment_status, LAMBDA v : clause_order_payment_status(reverse, v))
        \o push_if_some(self.order_category_id, LAMBDA v : clause_order_category_id(reverse, v))
        \o push_if_some(self.currency, LAMBDA v : clause_currency(reverse, v))
        \o push_if_some(self.date_start, clause_date_start)
        \o push_if_some(self.date_end, clause_date_end)
        \o push_if_some(self.last_updated_date_start, clause_last_updated_date_start)
        \o push_if_some(self.last_updated_date_end, clause_last_updated_date_end)

get_where_condition(self) ==
    LET conditions == where_conditions(self)
    IN  IF Len(conditions) # 0 THEN "WHERE " \o join(conditions, " AND ") ELSE ""

\* variant: order_category_id remapped by analogy with the other three
sort_term_category_name(sorter) ==
    LET col == get_sort_col_str(sorter)
        sort == get_sorter_str(sorter)
    IN  IF col = "warehouse_id" THEN "warehouse_name " \o sort
        ELSE IF col = "person_related_id" THEN "person_related_name " \o sort
        ELSE IF col = "person_in_charge_id" THEN "person_in_charge_name " \o sort
        ELSE IF col = "order_category_id" THEN "order_category_name " \o sort
        ELSE "orders." \o col \o " " \o sort

\* variant: the last branch without the table qualifier
sort_term_unqualified(sorter) ==
    LET col == get_sort_col_str(sorter)
        sort == get_sorter_str(sorter)
    IN  IF col = "warehouse_id" THEN "warehouse_name " \o sort
        ELSE IF col = "person_related_id" THEN "person_related_name " \o sort
        ELSE IF col = "person_in_charge_id" THEN "person_in_charge_name " \o sort
        ELSE IF col = "order_category_id" THEN "order_status_name " \o sort
        ELSE col \o " " \o sort

\* one iteration of the loop of get_order_condition
sort_term(sorter) ==
    LET col == get_sort_col_str(sorter)
        sort == get_sorter_str(sorter)
    IN  IF col = "warehouse_id" THEN "warehouse_name " \o sort
        ELSE IF col = "person_related_id" THEN "person_related_name " \o sort
        ELSE IF col = "person_in_charge_id" THEN "person_in_charge_name " \o sort
        ELSE IF col = "order_category_id" THEN "order_status_name " \o sort
        ELSE "orders." \o col \o " " \o sort

\* variant: without the final is_empty test
get_order_condition_no_empty_test(self) ==
    IF is_none(self.sorters) THEN ""
    ELSE LET sorters == unwrap(self.sorters)
             conditions == [i \in 1..Len(sorters) |-> sort_term(sorters[i])]
         IN  "ORDER BY " \o join(conditions, ", ")

\* variant: the terms pushed at the front of the Vec
get_order_condition_reversed(self) ==
    IF is_none(self.sorters) THEN ""
    ELSE LET sorters == unwrap(self.sorters)
             n == Len(sorters)
             conditions == [i \in 1..n |-> sort_term(sorters[n + 1 - i])]
         IN  IF Len(conditions) # 0 THEN "ORDER BY " \o join(conditions, ", ") ELSE ""

get_order_condition(self) ==
    IF is_none(self.sorters) THEN ""
    ELSE LET sorters == unwrap(self.sorters)
             conditions == [i \in 1..Len(sorters) |-> sort_term(sorters[i])]
         IN  IF Len(conditions) # 0 THEN "ORDER BY " \o join(conditions, ", ") ELSE ""

(***************************************************************************)
(* The requests explored.  A request is drawn by choosing which filter     *)
(* fields are present, a seed for the numeric values, the iteration order  *)
(* of the two sets, the enum values, the reverse set and the sort list.    *)
(***************************************************************************)
\* the filter fields, in the order get_where_condition visits them
FieldNames ==
    <<"id", "created_by_user_id", "updated_by_user_id", "fuzzy", "warehouse_ids",
      "person_related_id", "person_in_charge_id", "order_type",
      "order_payment_status", "order_category_id", "currency", "date_start",
      "date_end", "last_updated_date_start", "last_updated_date_end">>

FieldSet == {FieldNames[i] : i \in 1..Len(FieldNames)}

FieldIndex(f) == CHOOSE i \in 1..Len(FieldNames) : FieldNames[i] = f

\* sequences without repetition over S of at most n elements
InjSeqs(S, n) ==
    UNION {{s \in [1..k -> S] : \A i, j \in 1..k : i # j => s[i] # s[j]} : k \in 0..n}

\* subsets of S of at most n elements
RECURSIVE SubsetsUpTo(_, _)
SubsetsUpTo(S, n) ==
    IF n = 0 THEN {{}}
    ELSE LET smaller == SubsetsUpTo(S, n - 1)
         IN  smaller \cup {T \cup {x} : T \in smaller, x \in S}

FuzzySample == {"a", "bc"}
OrderTypeSample == {0, 7}
OrderCurrencySample == {2, 8}
OrderPaymentStatusSample == {1, 3}
ReverseExtra == {"nosuch"}

SortTokenSample ==
    {"id", "id:asc", "id:desc", "date:bogus", "warehouse_id:desc",
     "person_related_id", "person_in_charge_id:", "order_category_id:desc",
     "nosuch:desc", "a", "b", "a asc, orders.b"}

PresentSets == SubsetsUpTo(FieldSet, MaxPresent) \cup {FieldSet}

\* the request with the fields of P present
Build(P, seed, fz, wh, ot, ps, cur, rev, so) ==
    LET num(f) == IF f \in P THEN Some(seed + FieldIndex(f) - 1) ELSE None
        opt(f, v) == IF f \in P THEN Some(v) ELSE None
    IN  [id |-> num("id"),
         created_by_user_id |-> num("created_by_user_id"),
         updated_by_user_id |-> num("updated_by_user_id"),
         fuzzy |-> opt("fuzzy", fz),
         warehouse_ids |-> opt("warehouse_ids", wh),
         person_related_id |-> num("person_related_id"),
         person_in_charge_id |-> num("person_in_charge_id"),
         order_payment_status |-> opt("order_payment_status", ps),
         order_type |-> opt("order_type", ot),
         order_category_id |-> num("order_category_id"),
         currency |-> opt("currency", cur),
         date_start |-> num("date_start"),
         date_end |-> num("date_end"),
         last_updated_date_start |-> num("last_updated_date_start"),
         last_updated_date_end |-> num("last_updated_date_end"),
         sorters |-> so,
         reverse |-> rev]

SorterChoices ==
    {None} \cup {Some(s) : s \in UNION {[1..k -> SortTokenSample] : k \in 0..MaxSorters}}

\* a drawn request varies which fields are present (up to MaxPresent of
\* them, or all fifteen), with fixed values, and with reverse absent, empty
\* or naming every present field
PresenceRequest(r) ==
    \E P \in PresentSets :
    \E rev \in {None, Some({}), Some(P)} :
        r = Build(P, 1, "a", <<MaxVal, 1>>, 7, <<3, 1>>, 2, rev, None)

\* or it varies the value of one present field, every value of the enums
\* and every iteration order of the sets included, reversed or not
ValueRequest(r) ==
    \E f \in FieldSet :
    \E rev \in {None, Some({f})} :
    \E seed \in 1..MaxVal :
    \E fz \in IF f = "fuzzy" THEN FuzzySample ELSE {""} :
    \E wh \in IF f = "warehouse_ids" THEN InjSeqs(1..MaxVal, MaxSetLen) ELSE {<<>>} :
    \E ot \in IF f = "order_type" THEN OrderType ELSE {0} :
    \E ps \in IF f = "order_payment_status"
              THEN InjSeqs(OrderPaymentStatus, MaxSetLen) ELSE {<<>>} :
    \E cur \in IF f = "currency" THEN OrderCurrency ELSE {0} :
        r = Build({f}, seed, fz, wh, ot, ps, cur, rev, None)

\* or it varies the reverse set of the request with all fields present,
\* the two sets empty or not
ReverseRequest(r) ==
    \E R \in SubsetsUpTo(FieldSet \cup ReverseExtra, MaxReverse) :
    \E sets \in {<<<<MaxVal, 1>>, <<3, 1>>>>, <<<<>>, <<>>>>} :
        r = Build(FieldSet, 1, "bc", sets[1], 0, sets[2], 8, Some(R), Some(<<"id:desc">>))

\* or it varies the sort list
SortRequest(r) ==
    \/ \E so \in SorterChoices : r = Build({}, 1, "", <<>>, 0, <<>>, 0, None, so)
    \/ \E so \in {None, Some(<<>>), Some(<<"id">>)} :
          r = Build({"id"}, 1, "", <<>>, 0, <<>>, 0, Some({"id"}), so)
    \/ \E so \in {None, Some(<<>>), Some(<<"id">>)} :
          r = Build({}, 1, "", <<>>, 0, <<>>, 0, Some({"id"}), so)

(***************************************************************************)
(* State machine: a request is constructed, then the two compilers are     *)
(* applied to it, in any order and any number of times.                    *)
(***************************************************************************)
Init ==
    /\ \/ PresenceRequest(q)
       \/ ValueRequest(q)
       \/ ReverseRequest(q)
       \/ SortRequest(q)
       \/ q = empty
    /\ where_out = None
    /\ order_out = None

GetWhereCondition ==
    /\ where_out' = Some(get_where_condition(q))
    /\ UNCHANGED <<q, order_out>>

GetOrderCondition ==
    /\ order_out' = Some(get_order_condition(q))
    /\ UNCHANGED <<q, where_out>>

Next == GetWhereCondition \/ GetOrderCondition

Spec == Init /\ [][Next]_vars

TypeOK ==
    /\ where_out \in {None, Some(get_where_condition(q))}
    /\ order_out \in {None, Some(get_order_condition(q))}

(***************************************************************************)
(* Vocabulary of the properties.                                           *)
(***************************************************************************)
Present(r) == {f \in FieldSet : is_some(r[f])}

\* the present fields of r in the fixed order, as a sequence
RECURSIVE PresentFrom(_, _)
PresentFrom(r, i) ==
    IF i > Len(FieldNames) THEN <<>>
    ELSE (IF is_some(r[FieldNames[i]]) THEN <<FieldNames[i]>> ELSE <<>>)
         \o PresentFrom(r, i + 1)

PresentSeq(r) == PresentFrom(r, 1)

\* the clauses of a non-empty WHERE fragment, as the text between ' AND '
WhereBody(w) == SubSeq(w, Len("WHERE ") + 1, Len(w))
WhereClauses(w) == IF w = "" THEN <<>> ELSE Split(WhereBody(w), " AND ")

\* the terms of a non-empty ORDER BY fragment, as the text between ', '
OrderBody(o) == SubSeq(o, Len("ORDER BY ") + 1, Len(o))
OrderTerms(o) == IF o = "" THEN <<>> ELSE Split(OrderBody(o), ", ")

EqualityFields ==
    {"id", "created_by_user_id", "updated_by_user_id", "person_related_id",
     "person_in_charge_id", "order_category_id", "order_type", "currency"}
MembershipFields == {"warehouse_ids", "order_payment_status"}
ReversibleFields == EqualityFields \cup MembershipFields \cup {"fuzzy"}
RangeFields ==
    {"date_start", "date_end", "last_updated_date_start", "last_updated_date_end"}

\* the column text a field's clause starts with
ClauseColumn(f) ==
    CASE f = "fuzzy" -> "CAST(orders.id AS TEXT)"
      [] f = "warehouse_ids" -> "orders.warehouse_id"
      [] f = "date_start" -> "orders.date"
      [] f = "date_end" -> "orders.date"
      [] OTHER -> "orders." \o f

\* the operator text of a field's clause, affirmative or negated
ClauseOperator(f, negated) ==
    CASE f \in EqualityFields -> IF negated THEN "!=" ELSE "="
      [] f \in MembershipFields -> IF negated THEN " NOT IN (" ELSE " IN ("
      [] f = "fuzzy" -> IF negated THEN " NOT LIKE '%" ELSE " LIKE '%"
      [] f \in {"date_start", "last_updated_date_start"} -> ">="
      [] f \in {"date_end", "last_updated_date_end"} -> "<="

Toggle(reverse, f) ==
    IF is_none(reverse) THEN Some({f})
    ELSE IF f \in unwrap(reverse) THEN Some(unwrap(reverse) \ {f})
    ELSE Some(unwrap(reverse) \cup {f})

(***************************************************************************)
(* C1.  get_where_condition returns "" exactly when all fifteen filter     *)
(* fields are absent, whatever reverse and sorters hold;                   *)
(* get_order_condition returns "" exactly when sorters is absent or empty; *)
(* every other result starts with "WHERE " respectively "ORDER BY ".       *)
(***************************************************************************)
C1_EmptyFragments ==
    /\ is_some(where_out) =>
          LET w == unwrap(where_out)
          IN  /\ (w = "") <=> (Present(q) = {})
              /\ w # "" => StartsWith(w, "WHERE ")
    /\ is_some(order_out) =>
          LET o == unwrap(order_out)
          IN  /\ (o = "") <=> (is_none(q.sorters) \/ Len(unwrap(q.sorters)) = 0)
              /\ o # "" => StartsWith(o, "ORDER BY ")
    /\ (q = empty /\ is_some(where_out) /\ is_some(order_out)) =>
          (unwrap(where_out) = "" /\ unwrap(order_out) = "")

\* both fragments computed empty for a request with no filter, an empty
\* sort list and a non-empty reverse set
C1_Witness ==
    /\ where_out = Some("")
    /\ order_out = Some("")
    /\ q.sorters = Some(<<>>)
    /\ is_some(q.reverse) /\ unwrap(q.reverse) # {}

(***************************************************************************)
(* C2.  The WHERE fragment is "WHERE " followed by the ' AND '-join of     *)
(* exactly one clause per present field, none for an absent field, in the  *)
(* fixed field order, whatever the values and reverse are.                 *)
(***************************************************************************)
C2_OneClausePerField ==
    is_some(where_out) =>
        LET clauses == WhereClauses(unwrap(where_out))
            fields == PresentSeq(q)
        IN  /\ Len(clauses) = Len(fields)
            /\ Len(clauses) = Cardinality(Present(q))
            /\ \A i \in 1..Len(clauses) :
                  \E neg \in BOOLEAN :
                     StartsWith(clauses[i],
                                ClauseColumn(fields[i]) \o ClauseOperator(fields[i], neg))
            /\ Len(clauses) > 0 => unwrap(where_out) = "WHERE " \o join(clauses, " AND ")

\* all fifteen fields compiled, the two sets present and empty
C2_Witness ==
    /\ is_some(where_out)
    /\ Present(q) = FieldSet
    /\ q.warehouse_ids = Some(<<>>)
    /\ q.order_payment_status = Some(<<>>)
    /\ Len(WhereClauses(unwrap(where_out))) = Len(FieldNames)

(***************************************************************************)
(* C3.  The clause of a present reversible field F carries the negated     *)
(* operator iff F is in reverse; toggling F in reverse changes F's clause  *)
(* only: same count, same order, every other clause unchanged.             *)
(***************************************************************************)
C3_ReversePolarity ==
    is_some(where_out) =>
        \A clauses \in {WhereClauses(unwrap(where_out))} :
        \A fields \in {PresentSeq(q)} :
        \A i \in 1..Len(fields) :
           fields[i] \in ReversibleFields =>
              LET f == fields[i]
                  neg == in_reverse(q.reverse, f)
                  q2 == [q EXCEPT !.reverse = Toggle(q.reverse, f)]
              IN  /\ StartsWith(clauses[i], ClauseColumn(f) \o ClauseOperator(f, neg))
                  /\ ~StartsWith(clauses[i], ClauseColumn(f) \o ClauseOperator(f, ~neg))
                  /\ \A clauses2 \in {WhereClauses(get_where_condition(q2))} :
                        /\ Len(clauses2) = Len(clauses)
                        /\ StartsWith(clauses2[i], ClauseColumn(f) \o ClauseOperator(f, ~neg))
                        /\ \A j \in 1..Len(clauses) : j # i => clauses2[j] = clauses[j]

\* a reversed field compiled next to a field that is not reversed
C3_Witness ==
    /\ is_some(where_out)
    /\ \E f \in Present(q) \cap ReversibleFields : in_reverse(q.reverse, f)
    /\ \E f \in Present(q) \cap ReversibleFields : ~in_reverse(q.reverse, f)

(***************************************************************************)
(* C4.  The four range fields compile to the inclusive bounds              *)
(* orders.date>=v, orders.date<=v, orders.last_updated_date_start>=v and   *)
(* orders.last_updated_date_end<=v, whatever reverse contains.             *)
(***************************************************************************)
RangeClause(f, v) ==
    CASE f = "date_start" -> "orders.date>=" \o ToString(v)
      [] f = "date_end" -> "orders.date<=" \o ToString(v)
      [] f = "last_updated_date_start" -> "orders.last_updated_date_start>=" \o ToString(v)
      [] f = "last_updated_date_end" -> "orders.last_updated_date_end<=" \o ToString(v)

\* C4: each present range field's clause is its inclusive bound on the
\* literal column, and stays so when range fields are added to reverse
C4_RangesNeverReversed ==
    is_some(where_out) =>
        \A clauses \in {WhereClauses(unwrap(where_out))} :
        \A fields \in {PresentSeq(q)} :
        \A i \in 1..Len(fields) :
           fields[i] \in RangeFields =>
              /\ clauses[i] = RangeClause(fields[i], unwrap(q[fields[i]]))
              /\ \A R \in {{fields[i]}, RangeFields} :
                    LET old == IF is_some(q.reverse) THEN unwrap(q.reverse) ELSE {}
                        q2 == [q EXCEPT !.reverse = Some(old \cup R)]
                    IN  WhereClauses(get_where_condition(q2))[i] = clauses[i]

\* a range field compiled while reverse names a range field
C4_Witness ==
    /\ is_some(where_out)
    /\ is_some(q.date_start)
    /\ in_reverse(q.reverse, "date_start")
    /\ Contains(unwrap(where_out), "orders.date>=")

(***************************************************************************)
(* C5.  A present fuzzy value v compiles to one clause, the OR of exactly  *)
(* five comparisons against '%v%' over the five columns in fixed order,    *)
(* all with LIKE when "fuzzy" is not in reverse and all with NOT LIKE when *)
(* it is.                                                                  *)
(***************************************************************************)
FuzzyColumns ==
    <<"CAST(orders.id AS TEXT)", "persons_related.name", "persons_in_charge.name",
      "order_status_list.name", "warehouses.name">>

\* C5: the fuzzy clause is the ' OR '-join of the five columns, each with
\* the same operator, LIKE or NOT LIKE by reverse
C5_FuzzyFiveWay ==
    (is_some(where_out) /\ is_some(q.fuzzy)) =>
        LET clauses == WhereClauses(unwrap(where_out))
            fields == PresentSeq(q)
            i == CHOOSE k \in 1..Len(fields) : fields[k] = "fuzzy"
            parts == Split(clauses[i], " OR ")
            op == IF in_reverse(q.reverse, "fuzzy") THEN "NOT LIKE" ELSE "LIKE"
        IN  /\ Len(parts) = 5
            /\ \A k \in 1..5 :
                  parts[k] = FuzzyColumns[k] \o " " \o op \o " '%" \o unwrap(q.fuzzy) \o "%'"

\* a reversed fuzzy filter compiled
C5_Witness ==
    /\ is_some(where_out)
    /\ is_some(q.fuzzy)
    /\ in_reverse(q.reverse, "fuzzy")
    /\ Contains(unwrap(where_out), "NOT LIKE")

(***************************************************************************)
(* Sort tokens as the properties read them.                                *)
(***************************************************************************)
TokenColumn(t) == Split(t, ":")[1]

\* the direction a token asks for; ascending when it carries none or a
\* malformed one
TokenDirection(t) ==
    LET parts == Split(t, ":")
    IN  IF Len(parts) = 2 /\ parts[2] \in {"asc", "desc"} THEN parts[2] ELSE "asc"

ForeignKeyColumns ==
    {"warehouse_id", "person_related_id", "person_in_charge_id", "order_category_id"}

DisplayColumn(c) ==
    CASE c = "warehouse_id" -> "warehouse_name"
      [] c = "person_related_id" -> "person_related_name"
      [] c = "person_in_charge_id" -> "person_in_charge_name"
      [] c = "order_category_id" -> "order_status_name"

ExpectedTerm(t) ==
    IF TokenColumn(t) \in ForeignKeyColumns
    THEN DisplayColumn(TokenColumn(t)) \o " " \o TokenDirection(t)
    ELSE "orders." \o TokenColumn(t) \o " " \o TokenDirection(t)

\* the (column, direction) pair a compiled term is read back as
ReParse(term) ==
    LET k == RFind(term, " ")
        text == SubSeq(term, 1, k - 1)
        dir == SubSeq(term, k + 1, Len(term))
        col == IF StartsWith(text, "orders.")
               THEN SubSeq(text, Len("orders.") + 1, Len(text))
               ELSE IF \E c \in ForeignKeyColumns : DisplayColumn(c) = text
               THEN CHOOSE c \in ForeignKeyColumns : DisplayColumn(c) = text
               ELSE text
    IN  <<col, dir>>

(***************************************************************************)
(* C6.  Every sort token whose column is one of the four foreign keys is   *)
(* emitted as '<display name> <dir>' without the orders. qualifier, every  *)
(* other column c as 'orders.c <dir>', <dir> being the token's direction   *)
(* or the default one: "warehouse_id:desc" gives 'warehouse_name desc',    *)
(* "id" gives 'orders.id asc'.                                             *)
(***************************************************************************)
C6_SortColumnRemap ==
    (is_some(order_out) /\ is_some(q.sorters) /\ Len(unwrap(q.sorters)) > 0) =>
        LET toks == unwrap(q.sorters)
            o == unwrap(order_out)
        IN  /\ o = "ORDER BY " \o join([i \in 1..Len(toks) |-> ExpectedTerm(toks[i])], ", ")
            /\ toks = <<"warehouse_id:desc">> => o = "ORDER BY warehouse_name desc"
            /\ toks = <<"id">> => o = "ORDER BY orders.id asc"

\* a foreign-key token and a plain token compiled together
C6_Witness ==
    /\ is_some(order_out)
    /\ is_some(q.sorters)
    /\ \E i, j \in 1..Len(unwrap(q.sorters)) :
          /\ TokenColumn(unwrap(q.sorters)[i]) \in ForeignKeyColumns
          /\ TokenColumn(unwrap(q.sorters)[j]) \notin ForeignKeyColumns
    /\ Contains(unwrap(order_out), "_name ")

(***************************************************************************)
(* C7.  Round trip of the sort list: the ORDER BY fragment has as many     *)
(* comma-separated terms as the list has tokens, the i-th term comes from  *)
(* the i-th token, and reading the terms back recovers the tokens' columns *)
(* and directions in order (so lists that differ in a column or direction  *)
(* compile to different fragments).                                        *)
(***************************************************************************)
RoundTrips(toks, o) ==
    LET terms == OrderTerms(o)
    IN  /\ Len(terms) = Len(toks)
        /\ \A i \in 1..Len(terms) :
              /\ terms[i] = ExpectedTerm(toks[i])
              /\ ReParse(terms[i]) = <<TokenColumn(toks[i]), TokenDirection(toks[i])>>

\* C7 as stated: the round trip holds for every list of sort tokens
C7_RoundTripEveryList ==
    (is_some(order_out) /\ is_some(q.sorters)) =>
        RoundTrips(unwrap(q.sorters), unwrap(order_out))

\* C7 amended: the round trip holds for every list of sort tokens whose
\* column names contain no comma
C7_RoundTripNoComma ==
    (/\ is_some(order_out)
     /\ is_some(q.sorters)
     /\ \A i \in 1..Len(unwrap(q.sorters)) :
           ~Contains(TokenColumn(unwrap(q.sorters)[i]), ",")) =>
        RoundTrips(unwrap(q.sorters), unwrap(order_out))

\* a list with a repeated token and two directions compiled
C7_Witness ==
    /\ is_some(order_out)
    /\ is_some(q.sorters)
    /\ Len(unwrap(q.sorters)) >= 2
    /\ unwrap(q.sorters)[1] = unwrap(q.sorters)[2]
    /\ TokenDirection(unwrap(q.sorters)[1]) = "desc"
    /\ Len(OrderTerms(unwrap(order_out))) = Len(unwrap(q.sorters))

(***************************************************************************)
(* C8.  get_order_condition has no error outcome: every token yields its   *)
(* term, none is skipped; a missing or malformed direction degrades to the *)
(* default direction and an unrecognized column name is passed through as  *)
(* 'orders.<name> <dir>'; neither compiler modifies the request.           *)
(***************************************************************************)
WellFormedDirection(t) ==
    LET parts == Split(t, ":")
    IN  Len(parts) = 2 /\ parts[2] \in {"asc", "desc"}

OrderColumns ==
    {"id", "created_by_user_id", "updated_by_user_id", "date", "last_updated_date",
     "person_in_charge_id", "order_category_id", "from_guest_order_id", "currency",
     "items", "total_amount", "total_amount_settled", "order_payment_status",
     "warehouse_id", "person_related_id", "description", "order_type"}

NoErrorOutcome(r, o) ==
    is_some(r.sorters) =>
        LET toks == unwrap(r.sorters)
        IN  /\ Len(OrderTerms(o)) >= Len(toks)
            /\ \A i \in 1..Len(toks) :
                  LET col == TokenColumn(toks[i])
                  IN  /\ ~WellFormedDirection(toks[i]) =>
                            \/ Contains(o, "orders." \o col \o " " \o DefaultDirection)
                            \/ /\ col \in ForeignKeyColumns
                               /\ Contains(o, DisplayColumn(col) \o " " \o DefaultDirection)
                      /\ col \notin OrderColumns =>
                            Contains(o, "orders." \o col \o " " \o TokenDirection(toks[i]))

\* C8: every step leaves the request as it was and yields a fragment; an
\* ORDER BY fragment has a term for every token, whatever the token
C8_NoErrorOutcome ==
    [][/\ q' = q
       /\ is_some(where_out') \/ is_some(order_out')
       /\ is_some(order_out') => NoErrorOutcome(q', unwrap(order_out'))]_vars

\* a token with a malformed direction and one with an unknown column compiled
C8_Witness ==
    /\ is_some(order_out)
    /\ is_some(where_out)
    /\ is_some(q.sorters)
    /\ \E i, j \in 1..Len(unwrap(q.sorters)) :
          /\ ~WellFormedDirection(unwrap(q.sorters)[i])
          /\ unwrap(q.sorters)[j] = "nosuch:desc"
    /\ Contains(unwrap(order_out), "orders.nosuch desc")

(***************************************************************************)
(* What a WHERE fragment selects: rows of the joined order table and the   *)
(* standard evaluation of a fragment on a row, AND binding tighter than OR.*)
(***************************************************************************)
NameSample == {"a", "x"}

\* the four display names of a row: all from the sample when they agree,
\* and the rows where exactly the first or the last is "a"
NameRows ==
    {<<n, n, n, n>> : n \in NameSample}
        \cup {<<"a", "x", "x", "x">>, <<"x", "x", "x", "a">>}

Least(S) == CHOOSE x \in S : \A y \in S : x <= y
Greatest(S) == CHOOSE x \in S : \A y \in S : x >= y

\* a row gives every column the fragments name a value; the numeric
\* columns other than id and warehouse_id hold base + the position of
\* their filter field, so that they fall below, on and above the values
\* the explored requests compare them with; the three enum columns hold
\* the least or the greatest value of their samples
Rows ==
    {[id |-> i, base |-> n, warehouse_id |-> wh,
      order_type |-> IF hi THEN Greatest(OrderTypeSample) ELSE Least(OrderTypeSample),
      payment |-> IF hi THEN Greatest(OrderPaymentStatusSample)
                  ELSE Least(OrderPaymentStatusSample),
      currency |-> IF hi THEN Greatest(OrderCurrencySample) ELSE Least(OrderCurrencySample),
      related |-> names[1], in_charge |-> names[2], status |-> names[3],
      warehouse |-> names[4]] :
        i \in 1..MaxVal, n \in 0..(MaxVal + 1), wh \in 1..MaxVal,
        hi \in BOOLEAN, names \in NameRows}

NumericColumnField ==
    [c \in {"orders.created_by_user_id", "orders.updated_by_user_id",
            "orders.person_related_id", "orders.person_in_charge_id",
            "orders.order_category_id", "orders.last_updated_date_start",
            "orders.last_updated_date_end"} |->
        FieldIndex(SubSeq(c, Len("orders.") + 1, Len(c)))]

\* the SQL literal of a column's value in a row
ColumnLiteral(row, col) ==
    CASE col = "orders.id" -> ToString(row.id)
      [] col = "CAST(orders.id AS TEXT)" -> ToString(row.id)
      [] col = "orders.warehouse_id" -> ToString(row.warehouse_id)
      [] col = "orders.date" -> ToString(row.base + FieldIndex("date_start") - 1)
      [] col \in DOMAIN NumericColumnField ->
            ToString(row.base + NumericColumnField[col] - 1)
      [] col = "orders.order_type" -> "'" \o OrderTypeNames[row.order_type + 1] \o "'"
      [] col = "orders.order_payment_status" ->
            "'" \o OrderPaymentStatusNames[row.payment + 1] \o "'"
      [] col = "orders.currency" -> "'" \o OrderCurrencyNames[row.currency + 1] \o "'"
      [] col = "persons_related.name" -> row.related
      [] col = "persons_in_charge.name" -> row.in_charge
      [] col = "order_status_list.name" -> row.status
      [] col = "warehouses.name" -> row.warehouse

NumberOf(text) == CHOOSE n \in 0..(2 * MaxVal + Len(FieldNames)) : ToString(n) = text

\* a comparison read as <<column, operator, operand>>; the operand of LIKE is
\* the text between the % signs, the operand of IN the sequence of literals
ParseAtom(atom) ==
    LET cut(op) == Find(atom, op)
        left(op) == SubSeq(atom, 1, cut(op) - 1)
        right(op) == SubSeq(atom, cut(op) + Len(op), Len(atom))
        pattern(op) == SubSeq(right(op), 3, Len(right(op)) - 2)
        listed(op) == Split(SubSeq(right(op), 1, Len(right(op)) - 1), ",")
    IN  IF cut(" NOT LIKE ") > 0
            THEN [col |-> left(" NOT LIKE "), op |-> "NOT LIKE", arg |-> pattern(" NOT LIKE ")]
        ELSE IF cut(" LIKE ") > 0
            THEN [col |-> left(" LIKE "), op |-> "LIKE", arg |-> pattern(" LIKE ")]
        ELSE IF cut(" NOT IN (") > 0
            THEN [col |-> left(" NOT IN ("), op |-> "NOT IN", arg |-> listed(" NOT IN (")]
        ELSE IF cut(" IN (") > 0
            THEN [col |-> left(" IN ("), op |-> "IN", arg |-> listed(" IN (")]
        ELSE IF cut("!=") > 0
            THEN [col |-> left("!="), op |-> "!=", arg |-> right("!=")]
        ELSE IF cut(">=") > 0
            THEN [col |-> left(">="), op |-> ">=", arg |-> right(">=")]
        ELSE IF cut("<=") > 0
            THEN [col |-> left("<="), op |-> "<=", arg |-> right("<=")]
        ELSE [col |-> left("="), op |-> "=", arg |-> right("=")]

\* a fragment read with the standard precedence: the OR-operands, each the
\* sequence of its AND-operands
ParseWhere(w) ==
    IF w = "" THEN <<>>
    ELSE LET ors == Split(WhereBody(w), " OR ")
         IN  [i \in 1..Len(ors) |->
                 LET ands == Split(ors[i], " AND ")
                 IN  [j \in 1..Len(ands) |-> ParseAtom(ands[j])]]

\* the truth of one comparison on a row
HoldsAtom(a, row) ==
    LET value == ColumnLiteral(row, a.col)
    IN  CASE a.op = "NOT LIKE" -> ~Contains(value, a.arg)
          [] a.op = "LIKE" -> Contains(value, a.arg)
          [] a.op = "NOT IN" -> \A k \in 1..Len(a.arg) : value # a.arg[k]
          [] a.op = "IN" -> \E k \in 1..Len(a.arg) : value = a.arg[k]
          [] a.op = "!=" -> value # a.arg
          [] a.op = ">=" -> NumberOf(value) >= NumberOf(a.arg)
          [] a.op = "<=" -> NumberOf(value) <= NumberOf(a.arg)
          [] a.op = "=" -> value = a.arg

\* a row satisfies a parsed fragment: it is empty, or some OR-operand has
\* all its AND-operands true
SatisfiesParsed(pw, row) ==
    \/ Len(pw) = 0
    \/ \E i \in 1..Len(pw) : \A j \in 1..Len(pw[i]) : HoldsAtom(pw[i][j], row)

Satisfies(w, row) == SatisfiesParsed(ParseWhere(w), row)

\* the request with field f alone, reverse kept
Only(r, f) ==
    [g \in DOMAIN r |->
        IF g \in FieldSet /\ g # f THEN None ELSE r[g]]

(***************************************************************************)
(* C9.  The WHERE fragment denotes the conjunction of the per-field        *)
(* constraints: a row satisfies the fragment iff it satisfies the clause   *)
(* of every present field taken on its own, also when fuzzy is present     *)
(* together with another field.                                            *)
(***************************************************************************)
C9_FragmentIsConjunction ==
    is_some(where_out) =>
        LET whole == ParseWhere(unwrap(where_out))
            own == [f \in Present(q) |-> ParseWhere(get_where_condition(Only(q, f)))]
        IN  \A row \in Rows :
                SatisfiesParsed(whole, row)
                   <=> \A f \in Present(q) : SatisfiesParsed(own[f], row)

(***************************************************************************)
(* C10.  Reversing a field selects the complement: for a reversible field  *)
(* F present alone, a row satisfies F's clause compiled with F in reverse  *)
(* iff it does not satisfy the clause compiled without F in reverse.       *)
(***************************************************************************)
C10_ReverseIsComplement ==
    (is_some(where_out) /\ Cardinality(Present(q)) = 1) =>
        \A f \in Present(q) \cap ReversibleFields :
            LET plain == ParseWhere(unwrap(where_out))
                toggled ==
                    ParseWhere(get_where_condition([q EXCEPT !.reverse = Toggle(q.reverse, f)]))
            IN  \A row \in Rows :
                    SatisfiesParsed(plain, row) <=> ~SatisfiesParsed(toggled, row)

====
